---- MODULE Spec2Model ----
(***************************************************************************)
(* State-machine model of rag_doc_manager: tenant registration, index     *)
(* lifecycle, document upload / delete and scoped search.                  *)
(*                                                                         *)
(* Strings that the program builds by formatting are modelled as tuples   *)
(* of their parts: a blob name "acme/a1/report.pdf" is the sequence        *)
(* <<"acme","a1","report.pdf">>, a chunk id "report_chunk_0" is            *)
(* <<"report","_chunk_",0>>.  Python's None is the string "None", which is *)
(* also what an f-string renders it as.                                    *)
(***************************************************************************)
EXTENDS Integers, Sequences, FiniteSets, TLC

VARIABLES
    customers,      \* collection customer_index_mapping: customer_id -> Customer
    searchIndex,    \* search service: index name -> (chunk_id -> unit)
    indexRecords,   \* collection indexes: index_name -> IndexRecord
    documents,      \* collection documents: document_id -> DocumentRecord
    blobs,          \* object storage container: set of blob names
    last,           \* the most recent request and its outcome
    clean,          \* history: no upload or delete so far ended with an error
    managers,       \* DocumentManager._instances: customer -> cached manager state
    pending         \* per caller, its update_docs_in_index_record call: the
                    \* record it read and has not written yet, or its result

vars == <<customers, searchIndex, indexRecords, documents, blobs, last, clean,
          managers, pending>>
stores == <<customers, searchIndex, indexRecords, documents, blobs>>

None == "None"

----------------------------------------------------------------------------
(* Bounds of the model *)

MaxChunks == 2      \* most chunks the splitter emits for one file
MaxDocIds == 2      \* longest IndexRecord.document_ids list explored

(* Input domains shared by the specifications *)

Tenants == {"acme"}
Configs == {"cfgDefault", "cfgCustom"}
Users == {"u1", "u2"}
Stages == {"load", "chunk", "embed"}

----------------------------------------------------------------------------
(* Small helpers *)

Min(a, b) == IF a < b THEN a ELSE b

Has(f, k) == k \in DOMAIN f

Put(f, k, v) == [x \in DOMAIN f \cup {k} |-> IF x = k THEN v ELSE f[x]]

Drop(f, K) == [x \in DOMAIN f \ K |-> f[x]]

Range(s) == {s[i] : i \in DOMAIN s}

----------------------------------------------------------------------------
(* Files: Path(file).stem, Path(file).suffix, FileType, loaders, splitters *)

Stem(file) ==
    CASE file = "report.pdf" -> "report"
      [] file = "report.txt" -> "report"
      [] file = "notes.txt" -> "notes"
      [] file = "data.csv" -> "data"
      [] OTHER -> "tool"

Suffix(file) ==
    CASE file = "report.pdf" -> "pdf"
      [] file = "report.txt" -> "txt"
      [] file = "notes.txt" -> "txt"
      [] file = "data.csv" -> "csv"
      [] OTHER -> "exe"

FileTypes == {"pdf", "docx", "txt", "csv", "xlsx", "pptx", "html", "json", "md"}

\* FileType.from_path: raises ValueError for an extension outside the enum
FileTypeSupported(file) == Suffix(file) \in FileTypes

\* ChunkerFactory.get_splitter, base strategy: a splitter exists only for these
SplitterExists(file) == Suffix(file) \in {"md", "pdf", "docx", "txt", "pptx", "html"}

----------------------------------------------------------------------------
(* AzureDocumentManager.upload: scope assertions and storage prefix *)

\* the asserts of upload; a failing one raises AssertionError
UploadScopeAccepted(scope, a, u) ==
    CASE scope = "account" -> a # None
      [] scope = "user" -> u # None
      [] scope = "session" -> TRUE
      [] OTHER -> scope = "global"

DestinationPrefix(customer, scope, a, u, s) ==
    CASE scope = "account" -> <<customer, a>>
      [] scope = "user" -> <<customer, a, u>>
      [] scope = "session" -> <<customer, a, u, s>>
      [] OTHER -> <<customer>>

\* AzureBlobStorage.upload_file: blob_name = prefix + "/" + file name
BlobName(prefix, file) == Append(prefix, file)

\* os.path.join(destination_prefix, file) for a relative file path
DocumentUrl(prefix, file) == Append(prefix, file)

\* AzureBlobStorage._extract_blob_name_from_url: the container name is not a
\* part of the locator, so the last part is taken as the blob name
ExtractBlobName(url) == <<url[Len(url)]>>

----------------------------------------------------------------------------
(* DocumentProcessor *)

GenerateDocumentId(file) == Stem(file)

GenerateChunkId(document_id, chunk_index) == <<document_id, "_chunk_", chunk_index>>

\* the splitter's output for a file that splits into n chunks: chunk texts in
\* emission order (the k-th emitted text is <<"text", k>>)
SplitterOutput(n) == [k \in 1..n |-> <<"text", k>>]

\* embed_texts: one vector per text, order kept
EmbedTexts(texts) == [k \in 1..Len(texts) |-> <<"vec", texts[k][2]>>]

\* _convert_to_documents: enumerate(zip(chunks, embeddings)), idx from 0
ConvertToDocuments(chunks, document_id, a, u, is_global, s, embeddings) ==
    [k \in 1..Min(Len(chunks), Len(embeddings)) |->
        [ document_id |-> document_id,
          chunk_id |-> GenerateChunkId(document_id, k - 1),
          chunk_position |-> k - 1,
          content |-> chunks[k],
          embedding |-> embeddings[k],
          account_id |-> a,
          user_id |-> u,
          session_id |-> s,
          is_global |-> is_global ]]

\* process_document when no stage fails
ProcessDocument(file, n, a, u, is_global, s) ==
    LET chunks == SplitterOutput(n)
    IN ConvertToDocuments(chunks, GenerateDocumentId(file), a, u, is_global, s,
                          EmbedTexts(chunks))

\* the error a failing stage ends the upload with
StageError(stage) ==
    CASE stage = "load" -> "LoadError"
      [] stage = "chunk" -> "ChunkError"
      [] OTHER -> "EmbedError"

\* the stage of process_document that raises, "none" when all succeed:
\* get_loader raises on an unsupported file type, get_splitter on a type
\* with no splitter; `fail` is the stage at which an external call fails
\* process_document as it would be if an embedding failure were swallowed
FailingStageIgnoringEmbed(file, fail) ==
    IF ~FileTypeSupported(file) \/ fail = "load" THEN "load"
    ELSE IF ~SplitterExists(file) \/ fail = "chunk" THEN "chunk"
    ELSE "none"

FailingStage(file, fail) ==
    IF ~FileTypeSupported(file) \/ fail = "load" THEN "load"
    ELSE IF ~SplitterExists(file) \/ fail = "chunk" THEN "chunk"
    ELSE IF fail = "embed" THEN "embed"
    ELSE "none"

----------------------------------------------------------------------------
(* AISearchIndexClient: the units of one index are a function chunk_id -> unit *)

\* index_documents: upload_documents upserts by key; the service accepts every
\* unit but those at the positions in `rejected`
\* the fields of the tenant index and its key field, as the service reports
\* them through get_index
IndexFields ==
    { "document_id", "chunk_id", "chunk_position", "content", "embedding",
      "account_id", "user_id", "session_id", "is_global" }

PrimaryKey == "chunk_id"

\* Document.chunk_id when it was never set (the dataclass default, None)
NoChunkId == <<>>

\* convert_doc_to_search_record: one entry per index field, read from the
\* document with getattr(document, field, None); the result is <<record>>, or
\* <<>> where the code returns None
ConvertDocToSearchRecord(document) ==
    LET record == [f \in IndexFields |-> document[f]]
    IN IF PrimaryKey \notin DOMAIN record THEN <<>> ELSE <<record>>

Converted(document) == ConvertDocToSearchRecord(document) # <<>>

\* documents_to_index: the converted records that are not None, in order
DocumentsToIndex(units) ==
    LET docs == SelectSeq(units, Converted)
    IN [k \in 1..Len(docs) |-> ConvertDocToSearchRecord(docs[k])[1]]

SentRecords(units) == Range(DocumentsToIndex(units))

\* the search service takes a record unless its key is null or the service
\* refuses that chunk (rejected: the chunk positions it refuses)
ServiceAccepts(record, rejected) ==
    record[PrimaryKey] # NoChunkId /\ record.chunk_position \notin rejected

\* index_documents: one IndexingResponse per record handed to upload_documents
IndexingResults(units, rejected) ==
    LET sent == DocumentsToIndex(units)
    IN [k \in 1..Len(sent) |->
          [ success |-> ServiceAccepts(sent[k], rejected),
            document_id |-> sent[k][PrimaryKey],
            error_message |-> IF ServiceAccepts(sent[k], rejected)
                              THEN None ELSE "rejected" ]]

\* the index after index_documents: upload_documents is called once, with
\* every converted record; the accepted ones are stored under their key
IndexDocuments(index, units, rejected) ==
    LET sent == DocumentsToIndex(units)
        accepted == {k \in 1..Len(sent) : ServiceAccepts(sent[k], rejected)}
        keys == {sent[k][PrimaryKey] : k \in accepted}
    IN [c \in DOMAIN index \cup keys |->
          IF c \in keys
          THEN (CHOOSE x \in {sent[k] : k \in accepted} : x[PrimaryKey] = c)
          ELSE index[c]]

\* list_document_chunks: the keys of the units that satisfy document_id eq d
ListDocumentChunks(index, document_id) ==
    {c \in DOMAIN index : index[c].document_id = document_id}

\* delete_document: one delete action per listed chunk id
DeleteDocument(index, document_id) ==
    Drop(index, ListDocumentChunks(index, document_id))

----------------------------------------------------------------------------
(* DocumentRecord, authorization *)

\* pydantic validation of DocumentRecord: account_id, user_id and session_id
\* are declared str and reject None
DocumentRecordValid(a, u, s) == a # None /\ u # None /\ s # None

DocumentRecord(document_id, customer, index_name, a, u, s, scope, url, units) ==
    [ document_id |-> document_id,
      customer_id |-> customer,
      index_name |-> index_name,
      account_id |-> a,
      user_id |-> u,
      session_id |-> s,
      scope |-> scope,
      document_url |-> url,
      document_indexed |-> TRUE,
      chunk_ids |-> [k \in DOMAIN units |-> units[k].chunk_id] ]

\* is_user_authorized: a record must exist and hold the requesting user id
\* is_user_authorized as it would be without the owner comparison
IsUserAuthorizedAnyUser(user_id, document_id) ==
    Has(documents, document_id)

IsUserAuthorized(user_id, document_id) ==
    IF Has(documents, document_id)
    THEN documents[document_id].user_id = user_id
    ELSE FALSE

----------------------------------------------------------------------------
(* IndexManager.update_docs_in_index_record *)

\* list.remove: drops the first occurrence
RemoveFirst(seq, x) ==
    LET i == CHOOSE j \in 1..Len(seq) :
                 seq[j] = x /\ \A k \in 1..(j - 1) : seq[k] # x
    IN SubSeq(seq, 1, i - 1) \o SubSeq(seq, i + 1, Len(seq))

\* update_docs_in_index_record as it would be if a missing IndexRecord raised
UpdateDocsOutcomeRaising(customer, document_id, action) ==
    IF ~Has(indexRecords, customer) THEN "ValueError"
    ELSE IF action = "add" THEN "True"
    ELSE IF action = "delete"
         THEN IF document_id \in Range(indexRecords[customer].document_ids)
              THEN "True" ELSE "ValueError"
    ELSE "False"

\* the outcome: "True", "False", or the exception raised
UpdateDocsOutcome(customer, document_id, action) ==
    IF ~Has(indexRecords, customer) THEN "False"
    ELSE IF action = "add" THEN "True"
    ELSE IF action = "delete"
         THEN IF document_id \in Range(indexRecords[customer].document_ids)
              THEN "True" ELSE "ValueError"
    ELSE "False"

\* the indexes collection after the call
UpdateDocsInIndexRecord(customer, document_id, action) ==
    IF UpdateDocsOutcome(customer, document_id, action) # "True" THEN indexRecords
    ELSE LET rec == indexRecords[customer]
             ids == IF action = "add"
                    THEN Append(rec.document_ids, document_id)
                    ELSE RemoveFirst(rec.document_ids, document_id)
         IN Put(indexRecords, customer, [rec EXCEPT !.document_ids = ids])

----------------------------------------------------------------------------
(* CustomerIndexSchemaManager *)

\* customer_exists as it would be if the lookup never found the record
CustomerExistsNever(customer_id) ==
    FALSE

CustomerExists(customer_id) ==
    Has(customers, customer_id) /\ customers[customer_id].customer_id = customer_id

----------------------------------------------------------------------------
(* AISearchQueryEngine._build_filter_expression                            *)
(* A filter is the list of conditions joined by " and "; a condition is    *)
(* `field eq value`, or `(conditions) or is_global eq true`.               *)

Eq(field, value) == [kind |-> "eq", field |-> field, value |-> value, inner |-> <<>>]

OrGlobal(conds) == [kind |-> "or_global", field |-> "", value |-> "", inner |-> conds]

IsGlobalCond == Eq("is_global", "true")

\* the asserts of the scope branches; a failing one raises AssertionError
FilterScopeAccepted(a, u, s, scope) ==
    CASE scope = "account" -> a # None
      [] scope = "user" -> u # None
      [] scope = "session" -> s # None
      [] OTHER -> TRUE

\* filter_conditions after the scope branches
ScopeConditions(a, u, s, scope) ==
    CASE scope = "account" -> <<Eq("account_id", a)>>
      [] scope = "user" -> <<Eq("user_id", u)>>
      [] scope = "session" -> <<Eq("session_id", s)>>
      [] OTHER ->
           \* filter_conditions is still empty when this branch is entered
           LET filter_conditions == <<>>
           IN IF filter_conditions # <<>>
              THEN <<OrGlobal(filter_conditions)>>
              ELSE <<IsGlobalCond>>

\* custom_filters: a list of (field, string value) pairs, each appended
BuildFilterExpression(a, u, s, scope, custom_filters) ==
    ScopeConditions(a, u, s, scope)
        \o [k \in 1..Len(custom_filters) |->
                Eq(custom_filters[k][1], custom_filters[k][2])]

\* the search service's evaluation of a filter on a unit (null eq 'x' is false)
CondHolds(cond, unit) ==
    IF cond.field = "is_global" THEN unit.is_global = (cond.value = "true")
    ELSE IF cond.field = "account_id" THEN unit.account_id = cond.value
    ELSE IF cond.field = "user_id" THEN unit.user_id = cond.value
    ELSE IF cond.field = "session_id" THEN unit.session_id = cond.value
    ELSE IF cond.field = "document_id" THEN unit.document_id = cond.value
    ELSE FALSE

Matches(filter, unit) ==
    \A k \in 1..Len(filter) :
        IF filter[k].kind = "or_global"
        THEN (\A j \in 1..Len(filter[k].inner) : CondHolds(filter[k].inner[j], unit))
             \/ unit.is_global
        ELSE CondHolds(filter[k], unit)

----------------------------------------------------------------------------
(* Requests.  `last` records the request just served and how it ended.     *)

EmptyFn == [x \in {} |-> x]

\* what an operation hands back to its caller: nothing (Python's None), or a
\* list of per-unit IndexingResponse
NoReturn == [given |-> FALSE, results |-> <<>>]

NoRequest ==
    [ op |-> "none", tenant |-> None, doc |-> None, account |-> None,
      user |-> None, session |-> None, scope |-> None, n |-> 0,
      fault |-> None, config |-> None, custom |-> <<>>,
      outcome |-> None, registry |-> None, filter |-> <<>>, hits |-> {},
      rejected |-> {},       \* chunk positions the search service refused
      indexing |-> <<>>,     \* the list index_documents returned
      returned |-> NoReturn, \* what the operation returned to its caller
      external |-> <<>>,     \* external services called, in call order
      blob |-> None,         \* what delete_file returned
      sent |-> {} ]          \* records handed to upload_documents

\* the external services an upload calls, in order; the first k were called
UploadCalls(k) == SubSeq(<<"secret", "blob", "embed", "index", "database">>, 1, k)

\* the history variable after an upload or a delete
Track == clean' = (clean /\ last'.outcome = "ok")

Init ==
    /\ customers = EmptyFn
    /\ searchIndex = EmptyFn
    /\ indexRecords = EmptyFn
    /\ documents = EmptyFn
    /\ blobs = {}
    /\ last = NoRequest
    /\ clean = TRUE
    /\ managers = EmptyFn
    /\ pending = EmptyFn

\* AzureDocumentManager(customer=t, account_id=account): __new__ returns the
\* instance cached for the customer (creating it the first time) and Python
\* then runs __init__ on it, on every call.  __init__ assigns customer_id,
\* account_id and freshly built clients; indexing_engine is assigned only by
\* upload and delete and survives a later __init__.
GetManager(t, account) ==
    /\ managers' = Put(managers, t,
           [ account_id |-> account,
             indexing_engine |-> IF Has(managers, t)
                                 THEN managers[t].indexing_engine ELSE None ])
    /\ last' = [NoRequest EXCEPT !.op = "manager", !.tenant = t,
                                 !.account = account, !.outcome = "ok"]
    /\ UNCHANGED <<stores, clean, pending>>

\* CustomerIndexSchemaManager.register_customer
RegisterCustomer(t, cfg) ==
    LET req == [NoRequest EXCEPT !.op = "register", !.tenant = t, !.config = cfg]
    IN /\ UNCHANGED <<clean, managers, pending>>
       /\ IF CustomerExists(t)
          THEN /\ last' = [req EXCEPT !.outcome = "False"]
               /\ UNCHANGED stores
          ELSE /\ customers' = Put(customers, t,
                                   [customer_id |-> t, index_config |-> cfg])
               /\ last' = [req EXCEPT !.outcome = "True"]
               /\ UNCHANGED <<searchIndex, indexRecords, documents, blobs>>

\* get_index_config as it would be if it fell back to a default config
IndexConfigOfWithDefault(t) ==
    IF CustomerExists(t) THEN customers[t].index_config ELSE "cfgDefault"

\* CustomerIndexSchemaManager.get_index_config: None when there is no record
IndexConfigOf(t) ==
    IF CustomerExists(t) THEN customers[t].index_config ELSE None

\* IndexManager.create_new_index; create_fails: the service refuses
\* create_or_update_index, which create_index logs and answers with False;
\* insert_fails: the database refuses insert_record, which raises
CreateNewIndex(t, account, admin, create_fails, insert_fails) ==
    LET req == [NoRequest EXCEPT !.op = "create_index", !.tenant = t,
                                 !.account = account, !.user = admin]
        record == [ customer_id |-> t, index_name |-> t, account_ids |-> {account},
                    document_ids |-> <<>>, admin_id |-> admin ]
    IN /\ UNCHANGED <<clean, managers, pending>>
       /\ IF IndexConfigOf(t) = None
          THEN /\ last' = [req EXCEPT !.outcome = "IndexCreationError"]
               /\ UNCHANGED stores
          ELSE IF Has(searchIndex, t)
          THEN /\ last' = [req EXCEPT !.outcome = "ok"]
               /\ UNCHANGED stores
          ELSE /\ searchIndex' = IF create_fails THEN searchIndex
                                 ELSE Put(searchIndex, t, EmptyFn)
               /\ indexRecords' = IF insert_fails THEN indexRecords
                                  ELSE Put(indexRecords, t, record)
               /\ last' = [req EXCEPT !.fault = IF create_fails THEN "create" ELSE "none",
                              !.outcome = IF insert_fails THEN "Exception" ELSE "ok"]
               /\ UNCHANGED <<customers, documents, blobs>>

\* AzureDocumentManager.upload through the manager of tenant t.
\* n: chunks the splitter emits; fail: stage at which an external call fails;
\* rejected: chunk positions the search service refuses
Upload(t, index_name, file, a, u, s, scope, n, fail, rejected) ==
    LET req == [NoRequest EXCEPT !.op = "upload", !.tenant = t,
                    !.doc = GenerateDocumentId(file), !.account = a, !.user = u,
                    !.session = s, !.scope = scope, !.n = n, !.fault = fail,
                    !.rejected = rejected]
        prefix == DestinationPrefix(t, scope, a, u, s)
        document_id == GenerateDocumentId(file)
        stage == FailingStage(file, fail)
        chunked_documents == ProcessDocument(file, n, a, u, scope = "global", s)
        stored == blobs \cup {BlobName(prefix, file)}
        record == DocumentRecord(document_id, t, index_name, a, u, s, scope,
                                 DocumentUrl(prefix, file), chunked_documents)
    IN /\ Has(managers, t)
       \* self.indexing_engine = AISearchIndexClient(index_name=index_name)
       /\ managers' = [managers EXCEPT ![t].indexing_engine = index_name]
       /\ UNCHANGED pending
       /\ IF ~UploadScopeAccepted(scope, a, u)
          THEN \* get_secret has run for the AISearchIndexClient
               /\ last' = [req EXCEPT !.outcome = "AssertionError",
                                      !.external = UploadCalls(1)]
               /\ UNCHANGED stores
          ELSE IF stage # "none"
          THEN \* upload_file has run; process_document raises
               /\ blobs' = stored
               /\ last' = [req EXCEPT !.outcome = StageError(stage),
                      !.external = UploadCalls(IF stage = "embed" THEN 3 ELSE 2)]
               /\ UNCHANGED <<customers, searchIndex, indexRecords, documents>>
          ELSE IF Len(chunked_documents) = 0
          THEN \* chunked_documents[0]
               /\ blobs' = stored
               /\ last' = [req EXCEPT !.outcome = "IndexError",
                                      !.external = UploadCalls(3)]
               /\ UNCHANGED <<customers, searchIndex, indexRecords, documents>>
          ELSE IF ~Has(searchIndex, index_name)
          THEN \* index_documents: _get_primary_key finds no such index
               /\ blobs' = stored
               /\ last' = [req EXCEPT !.outcome = "IndexNotFound",
                                      !.external = UploadCalls(4)]
               /\ UNCHANGED <<customers, searchIndex, indexRecords, documents>>
          ELSE IF ~DocumentRecordValid(a, u, s)
          THEN \* the units are indexed, then DocumentRecord(...) raises
               /\ blobs' = stored
               /\ searchIndex' = Put(searchIndex, index_name,
                      IndexDocuments(searchIndex[index_name], chunked_documents, rejected))
               /\ last' = [req EXCEPT !.outcome = "ValidationError",
                      !.indexing = IndexingResults(chunked_documents, rejected),
                      !.sent = SentRecords(chunked_documents),
                      !.external = UploadCalls(4)]
               /\ UNCHANGED <<customers, indexRecords, documents>>
          ELSE /\ blobs' = stored
               /\ searchIndex' = Put(searchIndex, index_name,
                      IndexDocuments(searchIndex[index_name], chunked_documents, rejected))
               /\ documents' = Put(documents, document_id, record)
               /\ indexRecords' = UpdateDocsInIndexRecord(t, document_id, "add")
               \* the list index_documents returns is dropped; upload returns None
               /\ last' = [req EXCEPT !.outcome = "ok",
                      !.registry = UpdateDocsOutcome(t, document_id, "add"),
                      !.indexing = IndexingResults(chunked_documents, rejected),
                      !.sent = SentRecords(chunked_documents),
                      !.external = UploadCalls(5)]
               /\ UNCHANGED customers
       /\ Track

\* AzureDocumentManager.delete through the manager of tenant t
Delete(t, document_id, user_id) ==
    LET req == [NoRequest EXCEPT !.op = "delete", !.tenant = t,
                                 !.doc = document_id, !.user = user_id]
        removed == blobs \ {ExtractBlobName(documents[document_id].document_url)}
        \* delete_file: True when the blob was found and deleted
        deleted == IF ExtractBlobName(documents[document_id].document_url) \in blobs
                   THEN "True" ELSE "False"
    IN /\ Has(managers, t)
       \* self.indexing_engine = AISearchIndexClient(index_name=self.customer_id)
       /\ managers' = IF IsUserAuthorized(user_id, document_id)
                      THEN [managers EXCEPT ![t].indexing_engine = t]
                      ELSE managers
       /\ UNCHANGED pending
       /\ IF ~IsUserAuthorized(user_id, document_id)
          THEN /\ last' = [req EXCEPT !.outcome = "NotFoundOrUnauthorized"]
               /\ UNCHANGED stores
          ELSE IF ~Has(searchIndex, t)
          THEN \* delete_file has run; delete_document finds no index named t
               /\ blobs' = removed
               /\ last' = [req EXCEPT !.outcome = "IndexNotFound", !.blob = deleted]
               /\ UNCHANGED <<customers, searchIndex, indexRecords, documents>>
          ELSE /\ blobs' = removed
               /\ searchIndex' = Put(searchIndex, t, DeleteDocument(searchIndex[t], document_id))
               /\ documents' = Drop(documents, {document_id})
               /\ indexRecords' = UpdateDocsInIndexRecord(t, document_id, "delete")
               /\ last' = [req EXCEPT
                      !.blob = deleted,
                      !.registry = UpdateDocsOutcome(t, document_id, "delete"),
                      !.outcome = IF UpdateDocsOutcome(t, document_id, "delete") = "ValueError"
                                  THEN "ValueError" ELSE "ok"]
               /\ UNCHANGED customers
       /\ Track

\* the units of an index that a filter selects (before ranking and top_k)
Select(index, filter) == {c \in DOMAIN index : Matches(filter, index[c])}

\* AISearchQueryEngine.search
Search(index_name, a, u, s, scope, custom_filters, strategy) ==
    LET req == [NoRequest EXCEPT !.op = "search", !.tenant = index_name,
                    !.account = a, !.user = u, !.session = s, !.scope = scope,
                    !.custom = custom_filters, !.config = strategy]
        filter == BuildFilterExpression(a, u, s, scope, custom_filters)
    IN /\ UNCHANGED <<stores, clean, managers, pending>>
       /\ IF ~FilterScopeAccepted(a, u, s, scope)
          THEN last' = [req EXCEPT !.outcome = "AssertionError"]
          ELSE IF strategy \in {"text", "hybrid"}
          THEN \* search_results = [] has no get_count()
               last' = [req EXCEPT !.filter = filter, !.outcome = "AttributeError"]
          ELSE IF strategy # "vector"
          THEN \* no branch assigns search_results before the loop reads it
               last' = [req EXCEPT !.filter = filter, !.outcome = "UnboundLocalError"]
          ELSE IF ~Has(searchIndex, index_name)
          THEN last' = [req EXCEPT !.filter = filter, !.outcome = "SearchServiceError"]
          ELSE last' = [req EXCEPT !.filter = filter, !.outcome = "ok",
                            !.hits = Select(searchIndex[index_name], filter)]

----------------------------------------------------------------------------
(* Spec: the lifecycle of one tenant's document                            *)

Files == {"report.pdf", "notes.txt"}

DocumentIds == {GenerateDocumentId(f) : f \in Files}

\* (file, scope, account_id, user_id, session_id) of the uploads explored
LifecycleRequests ==
    { <<"report.pdf", "session", "a1", "u1", "s1">>,
      <<"report.pdf", "user", "a1", "u1", None>>,
      <<"notes.txt", "session", "a1", "u1", "s1">> }

\* (chunks emitted, failing stage) of the uploads explored
UploadRuns ==
    {<<n, "none">> : n \in 0..MaxChunks} \cup {<<1, st>> : st \in Stages}

\* the registry list is kept within the explored length
RegistryRoom(t) ==
    Has(indexRecords, t) => Len(indexRecords[t].document_ids) < MaxDocIds

Next ==
    \/ \E t \in Tenants : GetManager(t, "a1")
    \/ \E t \in Tenants, cfg \in Configs : RegisterCustomer(t, cfg)
    \/ \E t \in Tenants, cf \in BOOLEAN : CreateNewIndex(t, "a1", "u1", cf, FALSE)
    \/ \E t \in Tenants, r \in LifecycleRequests, run \in UploadRuns :
           /\ RegistryRoom(t)
           /\ Upload(t, t, r[1], r[3], r[4], r[5], r[2], run[1], run[2], {})
    \/ \E t \in Tenants, d \in DocumentIds, u \in Users : Delete(t, d, u)

Spec == Init /\ [][Next]_vars

----------------------------------------------------------------------------
(* Claims about the document lifecycle, checked under Spec *)

\* the units of document d in the tenant's index (none when there is no index)
TenantUnits(t, d) ==
    IF Has(searchIndex, t) THEN ListDocumentChunks(searchIndex[t], d) ELSE {}

\* the ids in the tenant's IndexRecord (none when there is no record)
RegistryIds(t) ==
    IF Has(indexRecords, t) THEN Range(indexRecords[t].document_ids) ELSE {}

\* the documents that hold a DocumentRecord marked indexed for index t
IndexedDocuments(t) ==
    {d \in DOMAIN documents :
        documents[d].document_indexed /\ documents[d].index_name = t}

\* C1: after a delete of d by d's owner has completed, d has no
\* DocumentRecord, no unit of d is left in the tenant's index, d is not in
\* IndexRecord.document_ids, and a second delete of d by the same user is
\* refused as not-found / not-authorized.
C1_DeleteRemovesDocument ==
    (last.op = "delete" /\ last.outcome = "ok") =>
        /\ ~Has(documents, last.doc)
        /\ TenantUnits(last.tenant, last.doc) = {}
        /\ last.doc \notin RegistryIds(last.tenant)
        /\ ~IsUserAuthorized(last.user, last.doc)

\* C2: while every upload and delete so far ran to completion without an
\* error, the ids in IndexRecord.document_ids are exactly the documents that
\* hold a DocumentRecord marked indexed for that index.
C2_RegistryMatchesRecords ==
    \A t \in Tenants :
        (clean /\ Has(indexRecords, t)) => RegistryIds(t) = IndexedDocuments(t)

\* the identifiers a scope requires, and no others
ExactIdentifiers(scope, a, u, s) ==
    CASE scope = "global"  -> a = None /\ u = None /\ s = None
      [] scope = "account" -> a # None /\ u = None /\ s = None
      [] scope = "user"    -> a # None /\ u # None /\ s = None
      [] scope = "session" -> a # None /\ u # None /\ s # None
      [] OTHER -> FALSE

\* the last request was an upload whose environment did not fail: no stage
\* fault, at least one chunk, and the tenant's index and IndexRecord exist
UploadRan ==
    /\ last.op = "upload" /\ last.fault = "none" /\ last.n >= 1
    /\ Has(searchIndex, last.tenant) /\ Has(indexRecords, last.tenant)

\* the chunk ids {document_id}_chunk_{position} for positions 0..n-1, in order
ExpectedChunkIds(d, n) == [k \in 1..n |-> GenerateChunkId(d, k - 1)]

\* C5: an upload that supplies exactly the identifiers its scope requires
\* completes and leaves a DocumentRecord with the document id, the scope and
\* the chunk ids, and the document id is in IndexRecord.document_ids.
C5_ExactIdentifiersUploadCompletes ==
    (UploadRan /\ ExactIdentifiers(last.scope, last.account, last.user, last.session)) =>
        /\ last.outcome = "ok"
        /\ Has(documents, last.doc)
        /\ documents[last.doc].document_id = last.doc
        /\ documents[last.doc].scope = last.scope
        /\ documents[last.doc].chunk_ids = ExpectedChunkIds(last.doc, last.n)
        /\ last.doc \in RegistryIds(last.tenant)

\* C6: an upload whose splitter emits N chunks yields N units with positions
\* 0..N-1 in emission order and ids {document_id}_chunk_{position}, and a
\* DocumentRecord whose chunk_ids lists these N ids in the same order.
C6_ChunksNumberedAndRecorded ==
    UploadRan =>
        /\ \A k \in 1..last.n :
              /\ Has(searchIndex[last.tenant], GenerateChunkId(last.doc, k - 1))
              /\ LET unit == searchIndex[last.tenant][GenerateChunkId(last.doc, k - 1)]
                 IN /\ unit.document_id = last.doc
                    /\ unit.chunk_position = k - 1
                    /\ unit.content = SplitterOutput(last.n)[k]
        /\ Has(documents, last.doc)
        /\ documents[last.doc].chunk_ids = ExpectedChunkIds(last.doc, last.n)

C8_ReRegisterLeavesCustomer ==
    [][ (last'.op = "register" /\ Has(customers, last'.tenant))
        => (last'.outcome = "False" /\ customers' = customers) ]_vars

\* a second registration with a different index config has been refused
C8_ReRegisterRefused ==
    /\ last.op = "register"
    /\ last.outcome = "False"
    /\ Has(customers, last.tenant)
    /\ customers[last.tenant].index_config # last.config

\* C10: when the load, chunk or embed stage fails during an upload, no unit
\* is written to the search index, no DocumentRecord is created or changed
\* and IndexRecord.document_ids is unchanged.
C10_StageFailureAbortsDocument ==
    [][ (last'.op = "upload" /\ last'.fault \in Stages)
        => UNCHANGED <<searchIndex, documents, indexRecords>> ]_vars

\* an upload has failed in the embed stage with the tenant's index in place
\* and an earlier version of the document already indexed
C10_EmbedFailed ==
    /\ last.op = "upload"
    /\ last.fault = "embed"
    /\ last.outcome = "EmbedError"
    /\ Has(searchIndex, last.tenant)
    /\ Has(documents, last.doc)

\* C14: create_new_index for a tenant that has no stored IndexConfig fails
\* with IndexCreationError and creates neither a search index nor an
\* IndexRecord.
C14_NoConfigNoIndex ==
    [][ (/\ last'.op = "create_index"
         /\ \/ ~Has(customers, last'.tenant)
            \/ customers[last'.tenant].index_config = None)
        => (/\ last'.outcome = "IndexCreationError"
            /\ searchIndex' = searchIndex
            /\ indexRecords' = indexRecords) ]_vars

\* create_new_index has been refused for a tenant that is not registered
C14_UnregisteredRefused ==
    /\ last.op = "create_index"
    /\ last.outcome = "IndexCreationError"
    /\ ~Has(customers, last.tenant)
    /\ ~Has(searchIndex, last.tenant)
    /\ ~Has(indexRecords, last.tenant)

\* C15: an IndexRecord for a tenant exists only if the search index of that
\* name exists, also when the adapter's create_index call fails.
C15_RecordOnlyWithIndex ==
    \A t \in DOMAIN indexRecords : Has(searchIndex, indexRecords[t].index_name)

----------------------------------------------------------------------------
(* SpecScope: uploads and searches under the four scopes                   *)

\* <<file, scope, account_id, user_id, session_id>> of the uploads
ScopeUploads ==
    { <<"notes.txt", "global", None, None, None>>,
      <<"report.pdf", "session", "a1", "u1", "s1">>,
      <<"report.pdf", "session", "a2", "u1", "s1">>,
      <<"report.pdf", "user", "a1", "u1", "s1">>,
      <<"report.pdf", "session", None, None, None>>,
      <<"report.pdf", "user", None, "u1", None>>,
      <<"report.pdf", "account", None, None, None>> }

\* <<scope, account_id, user_id, session_id>> of the searches
ScopeSearches ==
    { <<"global", None, None, None>>,
      <<"account", "a1", None, None>>,
      <<"account", "a2", None, None>>,
      <<"user", "a1", "u1", None>>,
      <<"user", "a2", "u1", None>>,
      <<"session", "a1", "u1", "s1">>,
      <<"session", "a2", "u1", "s1">>,
      <<"user", None, "u1", None>>,
      <<"account", None, None, None>> }

CustomFilters == { <<>>, << <<"document_id", "report">> >> }

Strategies == {"vector", "hybrid"}

NextScope ==
    \/ \E t \in Tenants : GetManager(t, "a1")
    \/ \E t \in Tenants : RegisterCustomer(t, "cfgDefault")
    \/ \E t \in Tenants : CreateNewIndex(t, "a1", "u1", FALSE, FALSE)
    \/ \E t \in Tenants, r \in ScopeUploads :
           /\ RegistryRoom(t)
           /\ Upload(t, t, r[1], r[3], r[4], r[5], r[2], 1, "none", {})
    \/ \E t \in Tenants, q \in ScopeSearches, cf \in CustomFilters, st \in Strategies :
           Search(t, q[2], q[3], q[4], q[1], cf, st)

SpecScope == Init /\ [][NextScope]_vars

\* C3: for a search under account, user or session scope with its identifier
\* supplied and no custom filters, the filter is (scope condition) OR
\* is_global = true, so every unit indexed with is_global = true is matched;
\* for scope global the filter is exactly is_global = true.
C3_NarrowScopesIncludeGlobal ==
    (last.op = "search" /\ last.custom = <<>> /\ last.outcome = "ok") =>
        IF last.scope = "global"
        THEN last.filter = <<IsGlobalCond>>
        ELSE /\ Len(last.filter) = 1
             /\ last.filter[1].kind = "or_global"
             /\ \A c \in DOMAIN searchIndex[last.tenant] :
                   searchIndex[last.tenant][c].is_global => c \in last.hits

\* the identifiers scope requires: account id; account and user id; account,
\* user and session id
RequiredIdentifiers(scope, a, u, s) ==
    CASE scope = "account" -> <<a>>
      [] scope = "user"    -> <<a, u>>
      [] scope = "session" -> <<a, u, s>>
      [] OTHER -> <<>>

\* C4: a search under account, user or session scope with its required
\* identifiers matches every unit of a document uploaded under that scope
\* with the same identifiers, and matches no non-global unit of a document
\* uploaded under the same scope kind with a different required identifier.
C4_FilterSeparatesSiblings ==
    (/\ last.op = "search" /\ last.outcome = "ok"
     /\ last.scope \in {"account", "user", "session"}
     /\ None \notin Range(RequiredIdentifiers(last.scope, last.account, last.user, last.session)))
    => \A d \in DOMAIN documents :
         documents[d].scope = last.scope =>
           LET units == TenantUnits(last.tenant, d)
               same == RequiredIdentifiers(last.scope, documents[d].account_id,
                                           documents[d].user_id, documents[d].session_id)
                       = RequiredIdentifiers(last.scope, last.account, last.user, last.session)
           IN IF same
              THEN last.custom = <<>> => units \subseteq last.hits
              ELSE \A c \in units :
                     ~searchIndex[last.tenant][c].is_global => c \notin last.hits

\* C9: an upload or search that lacks an identifier its scope requires fails
\* with a validation failure, and does not go on to store a blob, index
\* units or build a filter with the identifier missing.
C9_MissingIdentifierRejected ==
    [][ (/\ last'.op \in {"upload", "search"}
         /\ None \in Range(RequiredIdentifiers(last'.scope, last'.account,
                                                last'.user, last'.session)))
        => (/\ last'.outcome \in {"AssertionError", "ValidationError"}
            /\ blobs' = blobs
            /\ searchIndex' = searchIndex
            /\ last'.filter = <<>>) ]_vars

----------------------------------------------------------------------------
(* SpecFaults: uploads and deletes while an external service refuses part  *)
(* of the work                                                             *)

\* the sets of chunk positions the search service refuses
Rejections == { {}, {0}, {1} }

\* <<file, scope, account_id, user_id, session_id>> of the uploads
FaultUploads ==
    { <<"report.pdf", "session", "a1", "u1", "s1">>,
      <<"tool.exe", "session", "a1", "u1", "s1">>,
      <<"report.pdf", "account", None, "u1", "s1">> }

\* a Document built without a chunk id
KeylessUnit ==
    [ document_id |-> "report", chunk_id |-> NoChunkId, chunk_position |-> 0,
      content |-> <<"text", 1>>, embedding |-> <<"vec", 1>>,
      account_id |-> "a1", user_id |-> "u1", session_id |-> "s1",
      is_global |-> FALSE ]

\* the lists of Documents handed to index_documents directly
UnitBatches ==
    { <<KeylessUnit>>,
      ProcessDocument("report.pdf", 1, "a1", "u1", FALSE, "s1") \o <<KeylessUnit>> }

\* AISearchIndexClient(index_name).index_documents(units), called directly.
\* batch_refused: the service answers a batch that holds a record without a
\* key with an error for the whole request instead of a per-record failure
IndexDocumentsCall(index_name, units, batch_refused) ==
    LET req == [NoRequest EXCEPT !.op = "index_documents", !.tenant = index_name,
                                 !.n = Len(units)]
        keyless == \E r \in SentRecords(units) : r[PrimaryKey] = NoChunkId
    IN /\ UNCHANGED <<customers, indexRecords, documents, blobs, clean,
                      managers, pending>>
       /\ IF ~Has(searchIndex, index_name)
          THEN \* _get_primary_key raises
               /\ last' = [req EXCEPT !.outcome = "IndexNotFound"]
               /\ UNCHANGED searchIndex
          ELSE IF keyless /\ batch_refused
          THEN /\ last' = [req EXCEPT !.outcome = "HttpResponseError",
                                      !.sent = SentRecords(units)]
               /\ UNCHANGED searchIndex
          ELSE /\ searchIndex' = Put(searchIndex, index_name,
                      IndexDocuments(searchIndex[index_name], units, {}))
               /\ last' = [req EXCEPT !.outcome = "ok",
                      !.sent = SentRecords(units),
                      !.indexing = IndexingResults(units, {}),
                      !.returned = [given |-> TRUE,
                                    results |-> IndexingResults(units, {})]]

NextFaults ==
    \/ \E t \in Tenants : GetManager(t, "a1")
    \/ \E t \in Tenants : RegisterCustomer(t, "cfgDefault")
    \/ \E t \in Tenants, insf \in BOOLEAN : CreateNewIndex(t, "a1", "u1", FALSE, insf)
    \/ \E t \in Tenants, r \in FaultUploads, n \in 1..MaxChunks, rej \in Rejections :
           /\ RegistryRoom(t)
           /\ Upload(t, t, r[1], r[3], r[4], r[5], r[2], n, "none", rej)
    \/ \E t \in Tenants, d \in {"report"}, u \in Users : Delete(t, d, u)
    \/ \E t \in Tenants, units \in UnitBatches, refused \in BOOLEAN :
           IndexDocumentsCall(t, units, refused)

SpecFaults == Init /\ [][NextFaults]_vars

\* C11: when the index adapter reports a failure for some units of an
\* upload, the per-unit results are collected and returned to the caller of
\* the upload, the accepted units are in the index, and the refused units
\* are not written again.
C11_UnitResultsReturned ==
    [][ (last'.op = "upload" /\ last'.rejected # {} /\ last'.indexing # <<>>)
        => /\ last'.returned = [given |-> TRUE, results |-> last'.indexing]
           /\ \A k \in 1..Len(last'.indexing) :
                 LET key == last'.indexing[k].document_id
                 IN IF last'.indexing[k].success
                    THEN Has(searchIndex'[last'.tenant], key)
                    ELSE /\ Has(searchIndex'[last'.tenant], key)
                            = Has(searchIndex[last'.tenant], key)
                         /\ Has(searchIndex[last'.tenant], key) =>
                              searchIndex'[last'.tenant][key]
                              = searchIndex[last'.tenant][key] ]_vars

----------------------------------------------------------------------------
(* SpecRegistry: update_docs_in_index_record called by concurrent requests. *)
(* The call is two database operations, get_record and then               *)
(* update_or_create_record; other requests run between them.              *)

\* the concurrent callers and the document each one uploads or deletes
Callers == {"p1", "p2"}

DocumentOf(p) == IF p = "p1" THEN "report" ELSE "notes"

\* first half of update_docs_in_index_record: get_record, then the change
\* of document_ids on the caller's copy of the record
ReadIndexRecord(p, customer, action) ==
    LET document_id == DocumentOf(p)
        req == [NoRequest EXCEPT !.op = "read_index_record", !.tenant = customer,
                                 !.doc = document_id, !.config = action]
        outcome == UpdateDocsOutcome(customer, document_id, action)
        index_record == UpdateDocsInIndexRecord(customer, document_id, action)[customer]
    IN /\ ~(Has(pending, p) /\ pending[p].pc = "read")
       /\ action = "add" => RegistryRoom(customer)
       /\ pending' = IF outcome = "True"
                     THEN Put(pending, p, [pc |-> "read", customer |-> customer,
                                           action |-> action,
                                           index_record |-> index_record])
                     ELSE Drop(pending, {p})
       /\ last' = [req EXCEPT !.registry = IF outcome = "True" THEN None ELSE outcome,
                              !.outcome = IF outcome = "ValueError" THEN outcome ELSE "ok"]
       /\ UNCHANGED <<stores, clean, managers>>

\* second half: update_or_create_record writes the caller's copy with
\* update_one($set, upsert=True), then the call returns True
WriteIndexRecord(p) ==
    /\ Has(pending, p) /\ pending[p].pc = "read"
    /\ indexRecords' = Put(indexRecords, pending[p].customer, pending[p].index_record)
    /\ pending' = [pending EXCEPT ![p].pc = "returned"]
    /\ last' = [NoRequest EXCEPT !.op = "write_index_record",
                    !.tenant = pending[p].customer, !.doc = DocumentOf(p),
                    !.config = pending[p].action, !.registry = "True",
                    !.outcome = "ok"]
    /\ UNCHANGED <<customers, searchIndex, documents, blobs, clean, managers>>

NextRegistry ==
    \/ \E t \in Tenants : RegisterCustomer(t, "cfgDefault")
    \/ \E t \in Tenants : CreateNewIndex(t, "a1", "u1", FALSE, FALSE)
    \/ \E p \in Callers, t \in Tenants, action \in {"add", "delete"} :
           ReadIndexRecord(p, t, action)
    \/ \E p \in Callers : WriteIndexRecord(p)

SpecRegistry == Init /\ [][NextRegistry]_vars

\* C12: no registry update is lost: once two callers' latest
\* update_docs_in_index_record calls, adding different documents to the same
\* tenant's IndexRecord, have both returned True, document_ids holds both
\* documents, however the two calls interleaved.
C12_NoLostRegistryUpdate ==
    \A p \in Callers, q \in Callers :
        (/\ p # q
         /\ Has(pending, p) /\ pending[p].pc = "returned" /\ pending[p].action = "add"
         /\ Has(pending, q) /\ pending[q].pc = "returned" /\ pending[q].action = "add"
         /\ pending[p].customer = pending[q].customer)
        => {DocumentOf(p), DocumentOf(q)} \subseteq RegistryIds(pending[p].customer)

----------------------------------------------------------------------------
(* SpecTenants: two tenants, each with users of two accounts, working on   *)
(* files of the same name                                                  *)

TwoTenants == {"acme", "globex"}

Accounts == {"a1", "a2"}

NextTenants ==
    \/ \E t \in TwoTenants, account \in Accounts : GetManager(t, account)
    \/ \E t \in TwoTenants : RegisterCustomer(t, "cfgDefault")
    \/ \E t \in TwoTenants : CreateNewIndex(t, "a1", "u1", FALSE, FALSE)
    \/ \E t \in TwoTenants :
           /\ Has(managers, t)
           /\ RegistryRoom(t)
           /\ Upload(t, t, "report.pdf", managers[t].account_id, "u1", "s1",
                     "session", 1, "none", {})
    \/ \E t \in TwoTenants, u \in Users : Delete(t, "report", u)

SpecTenants == Init /\ [][NextTenants]_vars

\* C13: once the manager of a tenant has been constructed, its cached state
\* (account id, clients, indexing engine) is never changed by a later
\* request for that tenant, whatever account the request is for.
C13_ManagerStateImmutable ==
    [][ \A t \in DOMAIN managers : managers'[t] = managers[t] ]_vars

\* C20: an upload or delete issued through one tenant's manager never
\* overwrites or deletes a DocumentRecord whose customer_id is another
\* tenant, even when both tenants use the same document id.
C20_RecordsIsolatedPerTenant ==
    [][ \A d \in DOMAIN documents :
          (last'.op \in {"upload", "delete"} /\ documents[d].customer_id # last'.tenant)
          => (Has(documents', d) /\ documents'[d] = documents[d]) ]_vars

\* C16: update_docs_in_index_record called while the tenant has no
\* IndexRecord returns False, raises nothing and creates no IndexRecord; the
\* upload or delete that made the call still completes.
C16_MissingRegistryNotFatal ==
    [][ (/\ last'.op \in {"upload", "delete"}
         /\ last'.registry # None
         /\ ~Has(indexRecords, last'.tenant))
        => (/\ last'.registry = "False"
            /\ last'.outcome = "ok"
            /\ indexRecords' = indexRecords) ]_vars

\* an upload has completed and written its DocumentRecord although the
\* tenant has an index and no IndexRecord
C16_UploadWithoutRegistry ==
    /\ last.op = "upload"
    /\ last.outcome = "ok"
    /\ last.registry = "False"
    /\ Has(searchIndex, last.tenant)
    /\ ~Has(indexRecords, last.tenant)
    /\ Has(documents, last.doc)

\* C17: an upload that ends in a validation error (a scope identifier is
\* missing, or the file type is not supported) has made no external-service
\* call before failing.
C17_ValidationBeforeExternalCalls ==
    (/\ last.op = "upload"
     /\ \/ last.outcome = "AssertionError"
        \/ (last.outcome \in {"LoadError", "ChunkError"} /\ last.fault = "none"))
    => last.external = <<>>

\* C18: an authorized delete whose blob deletion failed has still removed
\* the document's units, its DocumentRecord and its id from the IndexRecord.
C18_BlobFailureNotFatal ==
    (last.op = "delete" /\ last.blob = "False") =>
        /\ TenantUnits(last.tenant, last.doc) = {}
        /\ ~Has(documents, last.doc)
        /\ last.doc \notin RegistryIds(last.tenant)

\* C19: index_documents hands no record without a primary key to the search
\* service: a unit that lacks the key is rejected before upload_documents.
C19_KeylessRejectedBeforeCall ==
    last.op = "index_documents" =>
        \A r \in last.sent : r[PrimaryKey] # NoChunkId

\* C29: a search under scope S returns a non-global unit only if the
\* unit's document was uploaded under scope S (stated for histories in which
\* every upload completed, so that each unit's DocumentRecord is the one
\* written by the upload that indexed the unit).
C29_SearchScopeMatchesUploadScope ==
    (last.op = "search" /\ last.outcome = "ok" /\ clean) =>
        \A c \in last.hits :
            LET unit == searchIndex[last.tenant][c]
            IN ~unit.is_global =>
                  /\ Has(documents, unit.document_id)
                  /\ documents[unit.document_id].scope = last.scope

----------------------------------------------------------------------------
(* Claims about repeated uploads, checked under Spec and SpecFaults *)

\* C22: after an upload of a document id has completed, the units in the
\* index with that document_id are exactly the chunk_ids of the current
\* DocumentRecord, also when an earlier upload of the id had more chunks
\* (stated for histories in which every upload and delete completed).
C22_ReuploadReplacesUnits ==
    (UploadRan /\ last.outcome = "ok" /\ clean) =>
        TenantUnits(last.tenant, last.doc) = Range(documents[last.doc].chunk_ids)

\* C23: IndexRecord.document_ids never holds a document id more than once.
C23_RegistryIdsDistinct ==
    \A t \in DOMAIN indexRecords :
        \A i \in DOMAIN indexRecords[t].document_ids :
            \A j \in DOMAIN indexRecords[t].document_ids :
                indexRecords[t].document_ids[i] = indexRecords[t].document_ids[j]
                    => i = j

\* C24: every chunk id listed in a DocumentRecord marked indexed is a unit
\* of the index the record names.
C24_IndexedRecordUnitsPresent ==
    \A d \in DOMAIN documents :
        documents[d].document_indexed =>
            \A c \in Range(documents[d].chunk_ids) :
                /\ Has(searchIndex, documents[d].index_name)
                /\ Has(searchIndex[documents[d].index_name], c)

\* C28: a completed authorized delete leaves no blob under the name the
\* upload stored the file at; for a file given by its bare name that name is
\* the document_url of the DocumentRecord.
C28_DeleteRemovesBlob ==
    [][ (last'.op = "delete" /\ last'.outcome = "ok")
        => documents[last'.doc].document_url \notin blobs' ]_vars

----------------------------------------------------------------------------
(* SpecCreate: create_new_index calls running concurrently with uploads.   *)
(* create_new_index asks the search service whether the index exists and   *)
(* creates index and IndexRecord afterwards; other requests run between.   *)

\* first half of create_new_index: _get_index_config, then
\* _need_to_create_new_index (check_index_exists) answers for the caller
NeedToCreateNewIndex(p, t, account, admin) ==
    LET req == [NoRequest EXCEPT !.op = "check_index", !.tenant = t,
                                 !.account = account, !.user = admin]
    IN /\ ~Has(pending, p)
       /\ UNCHANGED <<stores, clean, managers>>
       /\ IF IndexConfigOf(t) = None
          THEN /\ last' = [req EXCEPT !.outcome = "IndexCreationError"]
               /\ UNCHANGED pending
          ELSE IF Has(searchIndex, t)
          THEN \* nothing to create: create_new_index returns
               /\ last' = [req EXCEPT !.outcome = "ok"]
               /\ UNCHANGED pending
          ELSE /\ last' = [req EXCEPT !.outcome = "ok", !.fault = "create"]
               /\ pending' = Put(pending, p, [pc |-> "create", customer |-> t,
                                    account |-> account, admin |-> admin])

\* second half: create_index (create_or_update_index keeps the units of an
\* index that exists by now), then insert_record, a replace_one with upsert
CreateAndInsertRecord(p) ==
    LET t == pending[p].customer
        record == [ customer_id |-> t, index_name |-> t,
                    account_ids |-> {pending[p].account},
                    document_ids |-> <<>>, admin_id |-> pending[p].admin ]
    IN /\ Has(pending, p) /\ pending[p].pc = "create"
       /\ searchIndex' = IF Has(searchIndex, t) THEN searchIndex
                         ELSE Put(searchIndex, t, EmptyFn)
       /\ indexRecords' = Put(indexRecords, t, record)
       /\ pending' = Drop(pending, {p})
       /\ last' = [NoRequest EXCEPT !.op = "create_index", !.tenant = t,
                       !.account = pending[p].account, !.user = pending[p].admin,
                       !.fault = "none", !.outcome = "ok"]
       /\ UNCHANGED <<customers, documents, blobs, clean, managers>>

NextCreate ==
    \/ \E t \in Tenants : GetManager(t, "a1")
    \/ \E t \in Tenants : RegisterCustomer(t, "cfgDefault")
    \/ \E p \in Callers, t \in Tenants : NeedToCreateNewIndex(p, t, "a1", "u1")
    \/ \E p \in Callers : CreateAndInsertRecord(p)
    \/ \E t \in Tenants, f \in Files, n \in 1..MaxChunks :
           /\ RegistryRoom(t)
           /\ Upload(t, t, f, "a1", "u1", "s1", "session", n, "none", {})
    \/ \E t \in Tenants, d \in DocumentIds, u \in Users : Delete(t, d, u)

SpecCreate == Init /\ [][NextCreate]_vars

\* C21: a document id that is in IndexRecord.document_ids stays there in
\* every step that is not a delete of that document: create_new_index never
\* replaces or empties an existing IndexRecord.
C21_CreateKeepsRegistry ==
    [][ \A t \in DOMAIN indexRecords :
          \A d \in Range(indexRecords[t].document_ids) :
             ~(last'.op = "delete" /\ last'.doc = d)
             => (/\ Has(indexRecords', t)
                 /\ d \in Range(indexRecords'[t].document_ids)) ]_vars

----------------------------------------------------------------------------
(* SpecAdapter: AISearchIndexClient.delete_document called directly, for   *)
(* document ids given as text.  list_document_chunks writes the id into    *)
(* an OData filter, f"document_id eq '{document_id}'", which the search    *)
(* service reads back: a string literal runs to the first quote that is    *)
(* not doubled, and a doubled quote stands for one quote.                  *)

Quote == "'"

\* document ids as sequences of characters
DocumentIdTexts ==
    << <<"r">>, <<"o", Quote>>, <<"o", Quote, Quote>>, <<"o", Quote, "b">> >>

\* filter = f"document_id eq '{document_id}'"
DocumentIdFilter(document_id) ==
    <<"document_id", " eq ", Quote>> \o document_id \o <<Quote>>

\* the service's reading of a string literal whose opening quote precedes
\* text[i]: the value read, or a syntax error when text goes on after the
\* closing quote or ends without one
RECURSIVE ReadStringLiteral(_, _, _)
ReadStringLiteral(text, i, value) ==
    IF i > Len(text) THEN [ok |-> FALSE, value |-> <<>>]
    ELSE IF text[i] # Quote THEN ReadStringLiteral(text, i + 1, Append(value, text[i]))
    ELSE IF i < Len(text) /\ text[i + 1] = Quote
         THEN ReadStringLiteral(text, i + 2, Append(value, Quote))
    ELSE IF i = Len(text) THEN [ok |-> TRUE, value |-> value]
    ELSE [ok |-> FALSE, value |-> <<>>]

\* search(filter=filter) on the index: the keys of the units whose
\* document_id equals the literal the service read, or a failed request
SearchByDocumentIdFilter(index, filter) ==
    LET literal == ReadStringLiteral(filter, 4, <<>>)
    IN [ ok |-> literal.ok,
         chunk_ids |-> IF literal.ok
                       THEN {c \in DOMAIN index : index[c].document_id = literal.value}
                       ELSE {} ]

\* a Document of the i-th document id at position k; its chunk_id is chosen
\* by the caller from the characters the service allows in a key
AdapterUnit(i, k) ==
    [ document_id |-> DocumentIdTexts[i], chunk_id |-> <<"doc", i, "_chunk_", k>>,
      chunk_position |-> k,
      content |-> <<"text", k + 1>>, embedding |-> <<"vec", k + 1>>,
      account_id |-> "a1", user_id |-> "u1", session_id |-> "s1",
      is_global |-> FALSE ]

AdapterBatch(i, n) == [k \in 1..n |-> AdapterUnit(i, k - 1)]

\* AISearchIndexClient(index_name).delete_document(document_id)
DeleteDocumentCall(index_name, document_id) ==
    LET req == [NoRequest EXCEPT !.op = "delete_document", !.tenant = index_name,
                                 !.doc = document_id]
        listed == SearchByDocumentIdFilter(searchIndex[index_name],
                                           DocumentIdFilter(document_id))
    IN /\ UNCHANGED <<customers, indexRecords, documents, blobs, clean,
                      managers, pending>>
       /\ IF ~Has(searchIndex, index_name)
          THEN \* list_document_chunks: _get_primary_key raises
               /\ last' = [req EXCEPT !.outcome = "IndexNotFound"]
               /\ UNCHANGED searchIndex
          ELSE IF ~listed.ok
          THEN \* list_document_chunks raises
               /\ last' = [req EXCEPT !.outcome = "Exception"]
               /\ UNCHANGED searchIndex
          ELSE /\ searchIndex' = Put(searchIndex, index_name,
                                     Drop(searchIndex[index_name], listed.chunk_ids))
               /\ last' = [req EXCEPT !.outcome = "ok", !.hits = listed.chunk_ids]

NextAdapter ==
    \/ \E t \in Tenants : RegisterCustomer(t, "cfgDefault")
    \/ \E t \in Tenants : CreateNewIndex(t, "a1", "u1", FALSE, FALSE)
    \/ \E t \in Tenants, i \in DOMAIN DocumentIdTexts, n \in 1..MaxChunks :
           IndexDocumentsCall(t, AdapterBatch(i, n), FALSE)
    \/ \E t \in Tenants, d \in Range(DocumentIdTexts) : DeleteDocumentCall(t, d)

SpecAdapter == Init /\ [][NextAdapter]_vars

\* C25: delete_document(d) on an existing index removes every unit whose
\* document_id is d and leaves every unit of another document id as it was.
C25_DeleteDocumentExact ==
    [][ (last'.op = "delete_document" /\ Has(searchIndex, last'.tenant)) =>
          \A c \in DOMAIN searchIndex[last'.tenant] :
             IF searchIndex[last'.tenant][c].document_id = last'.doc
             THEN ~Has(searchIndex'[last'.tenant], c)
             ELSE /\ Has(searchIndex'[last'.tenant], c)
                  /\ searchIndex'[last'.tenant][c] = searchIndex[last'.tenant][c] ]_vars

----------------------------------------------------------------------------
(* SpecIndexNames: uploads that name an index other than the one called    *)
(* after the customer                                                      *)

NextIndexNames ==
    \/ \E t \in TwoTenants : GetManager(t, "a1")
    \/ \E t \in TwoTenants : RegisterCustomer(t, "cfgDefault")
    \/ \E t \in TwoTenants : CreateNewIndex(t, "a1", "u1", FALSE, FALSE)
    \/ \E t \in TwoTenants, index_name \in TwoTenants :
           /\ RegistryRoom(t)
           /\ Upload(t, index_name, "report.pdf", "a1", "u1", "s1", "session",
                     1, "none", {})
    \/ \E t \in TwoTenants, u \in Users : Delete(t, "report", u)

SpecIndexNames == Init /\ [][NextIndexNames]_vars

\* C26: an authorized delete of a tenant's own document leaves no unit of
\* the document in the index its DocumentRecord names, the index the upload
\* wrote the units to.
C26_DeleteUsesUploadIndex ==
    [][ (/\ last'.op = "delete"
         /\ last'.outcome # "NotFoundOrUnauthorized"
         /\ documents[last'.doc].customer_id = last'.tenant)
        => (Has(searchIndex', documents[last'.doc].index_name) =>
               ListDocumentChunks(searchIndex'[documents[last'.doc].index_name],
                                  last'.doc) = {}) ]_vars

----------------------------------------------------------------------------
(* SpecUpdateDocs: IndexManager.update_docs_in_index_record called         *)
(* directly, with any action value                                         *)

RegistryActions == {"add", "delete", "rename"}

\* IndexManager(customer).update_docs_in_index_record(document_id, action)
UpdateDocsCall(customer, document_id, action) ==
    LET req == [NoRequest EXCEPT !.op = "update_docs", !.tenant = customer,
                                 !.doc = document_id, !.config = action]
        outcome == UpdateDocsOutcome(customer, document_id, action)
    IN /\ indexRecords' = UpdateDocsInIndexRecord(customer, document_id, action)
       /\ last' = [req EXCEPT !.registry = outcome,
                      !.outcome = IF outcome = "ValueError" THEN outcome ELSE "ok"]
       /\ UNCHANGED <<customers, searchIndex, documents, blobs, clean,
                      managers, pending>>

NextUpdateDocs ==
    \/ \E t \in TwoTenants : RegisterCustomer(t, "cfgDefault")
    \/ \E t \in TwoTenants : CreateNewIndex(t, "a1", "u1", FALSE, FALSE)
    \/ \E t \in TwoTenants, d \in DocumentIds, action \in RegistryActions :
           /\ action = "add" => RegistryRoom(t)
           /\ UpdateDocsCall(t, d, action)

SpecUpdateDocs == Init /\ [][NextUpdateDocs]_vars

\* C27: update_docs_in_index_record returns a boolean whatever the document
\* id, the action and the registry are, and never raises.
C27_UpdateDocsReturnsBoolean ==
    last.op = "update_docs" =>
        /\ last.registry \in {"True", "False"}
        /\ last.outcome = "ok"

----------------------------------------------------------------------------
(* SpecSearch: searches under every strategy, with and without search_params *)

\* SearchParams.search_strategy when search_params is omitted: the field
\* default is the enum member SearchStrategy.HYBRID, which use_enum_values
\* does not turn into its value because defaults are not validated; the
\* member is not equal to any of the strings the branches compare with
DefaultSearchStrategy == "SearchStrategy.HYBRID"

\* the search_params argument: a strategy given by value, or no argument
SearchParamsGiven == {"text", "vector", "hybrid", "omitted"}

SearchStrategyOf(search_params) ==
    IF search_params = "omitted" THEN DefaultSearchStrategy ELSE search_params

NextSearch ==
    \/ \E t \in Tenants : GetManager(t, "a1")
    \/ \E t \in Tenants : RegisterCustomer(t, "cfgDefault")
    \/ \E t \in Tenants : CreateNewIndex(t, "a1", "u1", FALSE, FALSE)
    \/ \E t \in Tenants, f \in Files, n \in 1..MaxChunks :
           /\ RegistryRoom(t)
           /\ Upload(t, t, f, "a1", "u1", "s1", "session", n, "none", {})
    \/ \E t \in Tenants, scope \in {"account", "user", "session", "global"},
          search_params \in SearchParamsGiven :
           Search(t, "a1", "u1", "s1", scope, <<>>, SearchStrategyOf(search_params))

SpecSearch == Init /\ [][NextSearch]_vars

\* C30: a search on an existing index, with the identifiers its scope needs,
\* returns a SearchResponse whatever the strategy is, also when search_params
\* is omitted.
C30_SearchAnswersEveryStrategy ==
    (last.op = "search" /\ Has(searchIndex, last.tenant)) => last.outcome = "ok"

====
